---- MODULE Spec2Model ----
(***************************************************************************)
(* State-machine model of congress/dse2/dse_node.py: the DseNode service   *)
(* registry, the subscription table, the service RPC gateway and the       *)
(* publication dispatcher (DseNodeEndpoints).                              *)
(***************************************************************************)
EXTENDS Integers, Sequences, FiniteSets, TLC

\* ------------------------------------------------------------------ bounds
\* number of publications that may be cast on the bus in one behaviour
MaxPubs == 2
\* longest service id and partition id, in characters
MaxIdLen == 2

\* ------------------------------------------------------------ input universe
None == "None"

\* nodes of one deployment; both use the same partition_id
Nodes == {"n1", "n2"}

\* the control-bus service every node creates and registers in __init__
ControlBus == [n \in Nodes |-> IF n = "n1" THEN "cb1" ELSE "cb2"]

\* data-service objects handed to register_service by callers
UserObjs == {"s1", "s2", "s3"}

\* ids of the datasource records the store may hold
RecordIds == {"u1", "u3", "u4"}

\* the service object create_datasource_service builds for each record id
DsObj == [id \in RecordIds |->
             CASE id = "u1" -> "d1" [] id = "u3" -> "d3" [] OTHER -> "d4"]

DsObjs == {DsObj[id] : id \in RecordIds}

\* the service a second pass, run by add_datasource while the periodic pass
\* is under way, builds for record u1
ApiObjs == {"e1"}

Objs == UserObjs \cup {ControlBus[n] : n \in Nodes} \cup DsObjs \cup ApiObjs

\* service.service_id of each service object
service_id_of ==
    [o \in Objs |->
        CASE o = "s1" -> "a"
          [] o = "s2" -> "a"
          [] o = "s3" -> "b"
          [] o = "d1" -> "a"
          [] o = "e1" -> "a"
          [] o = "d3" -> "b"
          [] o = "d4" -> "d"
          [] OTHER    -> "_control_bus"]

\* getattr(service, 'ds_id', None) of each service object
ds_id_of ==
    [o \in Objs |->
        CASE o = "s1" -> "u1"
          [] o = "s2" -> "u2"
          [] o = "d1" -> "u1"
          [] o = "e1" -> "u1"
          [] o = "d3" -> "u3"
          [] o = "d4" -> "u4"
          [] OTHER    -> None]

\* getattr(service, 'type', '') of each service object
type_of ==
    [o \in Objs |->
        IF o \in {"s1", "s2"} \cup DsObjs \cup ApiObjs
        THEN "datasource_driver" ELSE ""]

\* execution contexts of node n1 that register services: a direct caller of
\* register_service, the periodic synchronizer, and an add_datasource request
Contexts == {"caller", "periodic", "api"}

\* a context that is not inside register_service
Idle == [at |-> "idle", obj |-> None]

\* service ids and uuids callers pass as selectors ("c" is hosted nowhere)
ServiceIds == {"a", "b", "c", "_control_bus"}
Uuids == {"u1", "u2", "u9"}

Publishers == {"b", "c"}
Tables == {"t1", "t2"}
Subscribers == {"a", "b"}
\* a snapshot and the diff that follows it
SequencedUpdates ==
    {[data |-> "d1", is_snapshot |-> TRUE, seqnum |-> 1],
     [data |-> "d2", is_snapshot |-> FALSE, seqnum |-> 2]}

\* ------------------------------------------------------------------- state
VARIABLES
    services,       \* node -> DseNode._services (ordered host list)
    svc_node,       \* service object -> service.node (None or a node)
    svc_server,     \* service object -> state of service._rpc_server
    subscriptions,  \* node -> DseNode.subscriptions {publisher -> {table -> set}}
    peers,          \* node -> dse_status()['peers'] as last observed
    queue,          \* node -> casts delivered to the node's control topic, FIFO
    inbox,          \* service object -> receive_data* calls it has received
    npubs,          \* number of publications cast so far
    store,          \* datasources_db: the persisted records, in query order
    published_tables, \* service object -> _published_tables_with_subscriber
    register_lock,  \* holder of the 'register_service' lock, None when free
    pc,             \* execution context -> where it is in register_service
    last            \* the call that was made last and how it ended

vars == <<services, svc_node, svc_server, subscriptions, peers, queue, inbox,
          npubs, store, published_tables, register_lock, pc, last>>

\* --------------------------------------------------------- dict / list helpers
EmptyDict == [x \in {} |-> {}]

DictSet(d, k, v) == [x \in (DOMAIN d) \cup {k} |-> IF x = k THEN v ELSE d[x]]

DictDel(d, k) == [x \in (DOMAIN d) \ {k} |-> d[x]]

Range(s) == {s[i] : i \in DOMAIN s}

\* list.remove(x): drops the first element equal to x
ListRemove(s, x) ==
    LET i == CHOOSE j \in 1..Len(s) :
                 s[j] = x /\ \A k \in 1..(j - 1) : s[k] # x
    IN  SubSeq(s, 1, i - 1) \o SubSeq(s, i + 1, Len(s))

\* the call record kept in `last`
Call(op, n, args, result, calls) ==
    [op |-> op, node |-> n, args |-> args, result |-> result, calls |-> calls]

NoArgs == [obj |-> None]

\* ------------------------------------------------------------ service registry
\* the first element of the list at one of the positions in I, None if none
FirstAt(list, I) ==
    IF I = {} THEN None
    ELSE list[CHOOSE i \in I : \A k \in I : i <= k]

\* DseNode.service_object: linear scan of the host list, first match wins
service_object(list, sid, uuid_) ==
    IF sid # None
    THEN IF uuid_ # None
         THEN "TypeError"
         ELSE FirstAt(list, {i \in 1..Len(list) : service_id_of[list[i]] = sid})
    ELSE IF uuid_ # None
         THEN FirstAt(list, {i \in 1..Len(list) : ds_id_of[list[i]] = uuid_})
         ELSE "TypeError"

\* register_service without the service_object() duplicate check
register_service_nocheck(n, o) ==
    /\ IF svc_node[o] # None
       THEN /\ last' = Call("register_service", n, [obj |-> o],
                            "AssertionError", <<>>)
            /\ UNCHANGED <<services, svc_node, svc_server>>
       ELSE /\ svc_node' = [svc_node EXCEPT ![o] = n]
            /\ services' = [services EXCEPT ![n] = Append(@, o)]
            /\ svc_server' = [svc_server EXCEPT ![o] = "started"]
            /\ last' = Call("register_service", n, [obj |-> o], "return", <<>>)
    /\ UNCHANGED <<subscriptions, peers, queue, inbox, npubs, store,
                   published_tables, register_lock, pc>>

\* register_service that sets service.node before the duplicate check
register_service_bind_first(n, o) ==
    /\ IF svc_node[o] # None
       THEN /\ last' = Call("register_service", n, [obj |-> o],
                            "AssertionError", <<>>)
            /\ UNCHANGED <<services, svc_node, svc_server>>
       ELSE IF service_object(services[n], service_id_of[o], None) # None
       THEN /\ svc_node' = [svc_node EXCEPT ![o] = n]
            /\ last' = Call("register_service", n, [obj |-> o],
                            "DataServiceError", <<>>)
            /\ UNCHANGED <<services, svc_server>>
       ELSE /\ svc_node' = [svc_node EXCEPT ![o] = n]
            /\ services' = [services EXCEPT ![n] = Append(@, o)]
            /\ svc_server' = [svc_server EXCEPT ![o] = "started"]
            /\ last' = Call("register_service", n, [obj |-> o], "return", <<>>)
    /\ UNCHANGED <<subscriptions, peers, queue, inbox, npubs, store,
                   published_tables, register_lock, pc>>

\* register_service that looks the id up on every node of the deployment
register_service_global_check(n, o) ==
    /\ IF svc_node[o] # None
       THEN /\ last' = Call("register_service", n, [obj |-> o],
                            "AssertionError", <<>>)
            /\ UNCHANGED <<services, svc_node, svc_server>>
       ELSE IF \E m \in Nodes :
                  service_object(services[m], service_id_of[o], None) # None
       THEN /\ last' = Call("register_service", n, [obj |-> o],
                            "DataServiceError", <<>>)
            /\ UNCHANGED <<services, svc_node, svc_server>>
       ELSE /\ svc_node' = [svc_node EXCEPT ![o] = n]
            /\ services' = [services EXCEPT ![n] = Append(@, o)]
            /\ svc_server' = [svc_server EXCEPT ![o] = "started"]
            /\ last' = Call("register_service", n, [obj |-> o], "return", <<>>)
    /\ UNCHANGED <<subscriptions, peers, queue, inbox, npubs, store,
                   published_tables, register_lock, pc>>

\* DseNode.register_service (runs under the 'register_service' lock)
register_service(n, o) ==
    /\ IF svc_node[o] # None
       THEN \* assert service.node is None
            /\ last' = Call("register_service", n, [obj |-> o],
                            "AssertionError", <<>>)
            /\ UNCHANGED <<services, svc_node, svc_server>>
       ELSE IF service_object(services[n], service_id_of[o], None) # None
       THEN /\ last' = Call("register_service", n, [obj |-> o],
                            "DataServiceError", <<>>)
            /\ UNCHANGED <<services, svc_node, svc_server>>
       ELSE /\ svc_node' = [svc_node EXCEPT ![o] = n]
            /\ services' = [services EXCEPT ![n] = Append(@, o)]
            /\ svc_server' = [svc_server EXCEPT ![o] = "started"]
            /\ last' = Call("register_service", n, [obj |-> o], "return", <<>>)
    /\ UNCHANGED <<subscriptions, peers, queue, inbox, npubs, store,
                   published_tables, register_lock, pc>>

\* DseNode.unregister_service
unregister_service(n, sid, uuid_) ==
    LET service == service_object(services[n], sid, uuid_)
        args == [service_id |-> sid, uuid_ |-> uuid_]
    IN  /\ IF service = "TypeError"
           THEN /\ last' = Call("unregister_service", n, args, "TypeError", <<>>)
                /\ UNCHANGED <<services, svc_server>>
           ELSE IF service # None
           THEN /\ services' = [services EXCEPT ![n] = ListRemove(@, service)]
                \* service.stop(); service.wait()
                /\ svc_server' = [svc_server EXCEPT ![service] = "stopped"]
                /\ last' = Call("unregister_service", n, args, "return", <<>>)
           ELSE \* LOG.debug(..., service.service_id, ...) with service None
                /\ last' = Call("unregister_service", n, args,
                                "AttributeError", <<>>)
                /\ UNCHANGED <<services, svc_server>>
        /\ UNCHANGED <<svc_node, subscriptions, peers, queue, inbox, npubs,
                   store,
                   published_tables, register_lock, pc>>

\* ---- register_service step by step, as several execution contexts run it
\* a context calls register_service(service) and finds the lock taken or free
register_call(c, n, o) ==
    /\ pc[c] = Idle
    /\ \A d \in Contexts : pc[d].obj # o
    /\ pc' = [pc EXCEPT ![c] = [at |-> "at the lock", obj |-> o]]
    /\ last' = Call("register_service", n, [obj |-> o], "called", <<>>)
    /\ UNCHANGED <<services, svc_node, svc_server, subscriptions, peers, queue,
                   inbox, npubs, store, published_tables, register_lock>>

\* the pass of a synchronizer context reaches a record with no hosted
\* service, builds the service and calls register_service with it
register_from_pass(c, n, id, o) ==
    /\ pc[c] = Idle
    /\ \A d \in Contexts : pc[d].obj # o
    /\ ds_id_of[o] = id
    /\ service_object(services[n], None, id) = None
    /\ pc' = [pc EXCEPT ![c] = [at |-> "at the lock", obj |-> o]]
    \* a new object each time
    /\ svc_node' = [svc_node EXCEPT ![o] = None]
    /\ svc_server' = [svc_server EXCEPT ![o] = "none"]
    /\ last' = Call("register_service", n, [obj |-> o], "called", <<>>)
    /\ UNCHANGED <<services, subscriptions, peers, queue, inbox, npubs, store,
                   published_tables, register_lock>>

\* entering the function without taking the lock
register_acquire_unlocked(c) ==
    /\ pc[c].at = "at the lock"
    /\ register_lock' = c
    /\ pc' = [pc EXCEPT ![c].at = "in"]
    /\ UNCHANGED <<services, svc_node, svc_server, subscriptions, peers, queue,
                   inbox, npubs, store, published_tables, last>>

\* @lockutils.synchronized('register_service'): one context at a time
register_acquire(c) ==
    /\ pc[c].at = "at the lock"
    /\ register_lock = None
    /\ register_lock' = c
    /\ pc' = [pc EXCEPT ![c].at = "in"]
    /\ UNCHANGED <<services, svc_node, svc_server, subscriptions, peers, queue,
                   inbox, npubs, store, published_tables, last>>

\* the assertion and the duplicate check; an exception releases the lock
register_check(c, n) ==
    LET o == pc[c].obj
        exc == IF svc_node[o] # None THEN "AssertionError"
               ELSE IF service_object(services[n], service_id_of[o], None) # None
               THEN "DataServiceError"
               ELSE None
    IN  /\ pc[c].at = "in"
        /\ IF exc # None
           THEN /\ pc' = [pc EXCEPT ![c] = Idle]
                /\ register_lock' = None
                /\ last' = [op |-> "register_service", node |-> n,
                            args |-> [obj |-> o], result |-> exc,
                            calls |-> <<>>, context |-> c]
           ELSE /\ pc' = [pc EXCEPT ![c].at = "checked"]
                /\ UNCHANGED <<register_lock, last>>
        /\ UNCHANGED <<services, svc_node, svc_server, subscriptions, peers,
                       queue, inbox, npubs, store, published_tables>>

\* service.node = self; self._services.append(service)
register_insert(c, n) ==
    LET o == pc[c].obj
    IN  /\ pc[c].at = "checked"
        /\ svc_node' = [svc_node EXCEPT ![o] = n]
        /\ services' = [services EXCEPT ![n] = Append(@, o)]
        /\ pc' = [pc EXCEPT ![c].at = "inserted"]
        /\ UNCHANGED <<svc_server, subscriptions, peers, queue, inbox, npubs,
                       store, published_tables, register_lock, last>>

\* messaging.get_rpc_server(...) and service.start(): either of them can
\* raise; the function ends, normally or not, and the lock is released
register_start(c, n, started) ==
    LET o == pc[c].obj
    IN  /\ pc[c].at = "inserted"
        /\ svc_server' = [svc_server EXCEPT ![o] =
                              IF started THEN "started" ELSE "none"]
        /\ pc' = [pc EXCEPT ![c] = Idle]
        /\ register_lock' = None
        /\ last' = [op |-> "register_service", node |-> n,
                    args |-> [obj |-> o],
                    result |-> IF started THEN "return" ELSE "Exception",
                    calls |-> <<>>, context |-> c]
        /\ UNCHANGED <<services, svc_node, subscriptions, peers, queue, inbox,
                       npubs, store, published_tables>>

\* unregister_service that signals the stop but leaves the service listed
unregister_service_stop_listed(n, sid) ==
    LET service == service_object(services[n], sid, None)
        args == [service_id |-> sid, uuid_ |-> None]
    IN  /\ IF service # None
           THEN /\ svc_server' = [svc_server EXCEPT ![service] = "stopping"]
                /\ last' = Call("unregister_service", n, args, "in wait", <<>>)
                /\ UNCHANGED services
           ELSE /\ last' = Call("unregister_service", n, args,
                                "AttributeError", <<>>)
                /\ UNCHANGED <<services, svc_server>>
        /\ UNCHANGED <<svc_node, subscriptions, peers, queue, inbox, npubs,
                       store,
                   published_tables, register_lock, pc>>

\* DseNode.unregister_service up to its blocking call: _services.remove(),
\* service.stop(), and the caller is now suspended in service.wait()
unregister_service_stop(n, sid) ==
    LET service == service_object(services[n], sid, None)
        args == [service_id |-> sid, uuid_ |-> None]
    IN  /\ IF service # None
           THEN /\ services' = [services EXCEPT ![n] = ListRemove(@, service)]
                /\ svc_server' = [svc_server EXCEPT ![service] = "stopping"]
                /\ last' = Call("unregister_service", n, args, "in wait", <<>>)
           ELSE /\ last' = Call("unregister_service", n, args,
                                "AttributeError", <<>>)
                /\ UNCHANGED <<services, svc_server>>
        /\ UNCHANGED <<svc_node, subscriptions, peers, queue, inbox, npubs,
                       store,
                   published_tables, register_lock, pc>>

\* DseNode.unregister_service from service.wait() on: the rpc server of the
\* service has drained, wait() returns and so does unregister_service
unregister_service_wait(n, service) ==
    /\ svc_node[service] = n
    /\ svc_server[service] = "stopping"
    /\ svc_server' = [svc_server EXCEPT ![service] = "stopped"]
    /\ last' = Call("unregister_service", n,
                    [service_id |-> service_id_of[service], uuid_ |-> None],
                    "return", <<>>)
    /\ UNCHANGED <<services, svc_node, subscriptions, peers, queue, inbox,
                   npubs, store,
                   published_tables, register_lock, pc>>

\* a lookup made by another execution context of the node
lookup(n, sid) ==
    /\ last' = Call("service_object", n, [service_id |-> sid, uuid_ |-> None],
                    service_object(services[n], sid, None), <<>>)
    /\ UNCHANGED <<services, svc_node, svc_server, subscriptions, peers, queue,
                   inbox, npubs, store,
                   published_tables, register_lock, pc>>

\* service ids whose first character is '_'
HiddenIds == {"_control_bus"}

\* DseNode.get_services
get_services(n, hidden) ==
    IF hidden
    THEN services[n]
    ELSE SelectSeq(services[n], LAMBDA s : service_id_of[s] \notin HiddenIds)

\* control bus: the node's observation of its peers is refreshed
heartbeat(n) ==
    /\ peers' = [peers EXCEPT ![n] =
                    [m \in Nodes \ {n} |->
                        [services |-> {service_id_of[s] : s \in Range(services[m])},
                         subscribed_tables |->
                             [p \in DOMAIN subscriptions[m] |->
                                 DOMAIN subscriptions[m][p]]]]]
    /\ last' = Call("heartbeat", n, NoArgs, "return", <<>>)
    /\ UNCHANGED <<services, svc_node, svc_server, subscriptions, queue,
                   inbox, npubs, store,
                   published_tables, register_lock, pc>>

\* DseNode.get_global_service_names
get_global_service_names(n, hidden) ==
    LET local_services == {service_id_of[s] : s \in Range(get_services(n, hidden))}
        peer_services == UNION {peers[n][m].services : m \in DOMAIN peers[n]}
    IN  local_services \cup peer_services

\* is_valid_service that asks for the names with the default hidden=False
is_valid_service_not_hidden(n, sid) ==
    sid \in get_global_service_names(n, FALSE)

\* DseNode.is_valid_service
is_valid_service(n, sid) == sid \in get_global_service_names(n, TRUE)

\* ------------------------------------------------------------------ RPC gateway
\* an RPC server bound to the service topic is running (on this node if local)
Listening(n, sid, local) ==
    \E o \in Objs : /\ svc_server[o] = "started"
                    /\ service_id_of[o] = sid
                    /\ local => svc_node[o] = n

TransportErrors == {"MessagingTimeout", "MessageDeliveryFailure"}

\* what client.call can do: nothing answers on a topic without a server
PingOutcomes(n, sid, local) ==
    IF Listening(n, sid, local) THEN {"ok"} \cup TransportErrors
    ELSE TransportErrors

CallOutcomes(n, sid, local) ==
    IF Listening(n, sid, local) THEN {"ok", "RemoteError"} \cup TransportErrors
    ELSE TransportErrors

\* client.prepare(timeout=cfg.CONF.dse_ping_timeout).call(context, 'ping')
Ping(outcome) ==
    [rpc |-> "ping", outcome |-> outcome, timeout |-> "dse_ping_timeout"]

\* the real call of invoke_service_rpc without its except clause
RealCall_uncaught(n, sid, local, before) ==
    {[result |-> IF c = "ok" THEN "return" ELSE c,
      calls  |-> before \o <<[rpc |-> "call", outcome |-> c,
                              timeout |-> "timeout"]>>] :
        c \in CallOutcomes(n, sid, local)}

\* the real call of invoke_service_rpc and its except clause
RealCall(n, sid, local, before) ==
    {[result |-> IF c \in TransportErrors THEN "NotFound"
                 ELSE IF c = "ok" THEN "return" ELSE c,
      \* client = RPCClient(..., timeout=timeout): the caller's timeout
      calls  |-> before \o <<[rpc |-> "call", outcome |-> c,
                              timeout |-> "timeout"]>>] :
        c \in CallOutcomes(n, sid, local)}

\* invoke_service_rpc whose ping is not wrapped in try/except
invoke_runs_raw_ping(n, sid, local) ==
    IF ~is_valid_service(n, sid)
    THEN UNION {IF p \in TransportErrors
                THEN {[result |-> p,
                       calls  |-> <<Ping(p)>>]}
                ELSE RealCall(n, sid, local, <<Ping(p)>>) :
                    p \in PingOutcomes(n, sid, local)}
    ELSE RealCall(n, sid, local, <<>>)

\* invoke_service_rpc that pings whether or not the service is known
invoke_runs_always_ping(n, sid, local) ==
    UNION {IF p \in TransportErrors
           THEN {[result |-> "NotFound", calls |-> <<Ping(p)>>]}
           ELSE RealCall(n, sid, local, <<Ping(p)>>) :
               p \in PingOutcomes(n, sid, local)}

\* DseNode.invoke_service_rpc: every way one invocation can run
invoke_runs(n, sid, local) ==
    IF ~is_valid_service(n, sid)
    THEN UNION {IF p \in TransportErrors
                THEN {[result |-> "NotFound",
                       calls  |-> <<Ping(p)>>]}
                ELSE RealCall(n, sid, local, <<Ping(p)>>) :
                    p \in PingOutcomes(n, sid, local)}
    ELSE RealCall(n, sid, local, <<>>)

invoke_service_rpc(n, sid, local) ==
    /\ \E run \in invoke_runs(n, sid, local) :
           last' = Call("invoke_service_rpc", n,
                        [service_id |-> sid, local |-> local],
                        run.result, run.calls)
    /\ UNCHANGED <<services, svc_node, svc_server, subscriptions, peers, queue,
                   inbox, npubs, store,
                   published_tables, register_lock, pc>>

\* what client.cast can do: nothing is awaited, so it cannot time out
CastOutcomes == {"ok", "MessageDeliveryFailure"}

\* DseNode.broadcast_service_rpc
broadcast_service_rpc(n, sid) ==
    /\ IF ~is_valid_service(n, sid)
       THEN last' = Call("broadcast_service_rpc", n, [service_id |-> sid],
                         "NotFound", <<>>)
       ELSE \E c \in CastOutcomes :
               last' = Call("broadcast_service_rpc", n, [service_id |-> sid],
                            IF c = "ok" THEN "return" ELSE c,
                            <<[rpc |-> "cast", outcome |-> c]>>)
    /\ UNCHANGED <<services, svc_node, svc_server, subscriptions, peers, queue,
                   inbox, npubs, store,
                   published_tables, register_lock, pc>>

\* ---------------------------------------------------------- subscription table
\* DseNode.table_subscribers
table_subscribers(subs, publisher, table) ==
    IF publisher \in DOMAIN subs /\ table \in DOMAIN subs[publisher]
    THEN subs[publisher][table]
    ELSE {}

\* subscribe_table that overwrites the subscriber set of the table
Subscribed_overwrite(subs, subscriber, publisher, table) ==
    LET s1 == IF publisher \notin DOMAIN subs
              THEN DictSet(subs, publisher, EmptyDict) ELSE subs
    IN  DictSet(s1, publisher, DictSet(s1[publisher], table, {subscriber}))

\* the dict mutation of subscribe_table
Subscribed(subs, subscriber, publisher, table) ==
    LET s1 == IF publisher \notin DOMAIN subs
              THEN DictSet(subs, publisher, EmptyDict) ELSE subs
        s2 == IF table \notin DOMAIN s1[publisher]
              THEN DictSet(s1, publisher, DictSet(s1[publisher], table, {}))
              ELSE s1
    IN  DictSet(s2, publisher,
                DictSet(s2[publisher], table,
                        s2[publisher][table] \cup {subscriber}))

\* DseNode.subscribe_table (always_snapshot is False); `before` remembers the
\* table the call started from
subscribe_table(n, subscriber, publisher, table) ==
    /\ subscriptions' = [subscriptions EXCEPT ![n] =
                            Subscribed(@, subscriber, publisher, table)]
    /\ \E run \in invoke_runs(n, publisher, FALSE) :
           last' = [op |-> "subscribe_table", node |-> n,
                    args |-> [subscriber |-> subscriber,
                              publisher |-> publisher, table |-> table],
                    result |-> run.result, calls |-> run.calls,
                    before |-> subscriptions[n]]
    /\ UNCHANGED <<services, svc_node, svc_server, peers, queue, inbox, npubs,
                   store,
                   published_tables, register_lock, pc>>

\* unsubscribe_table that leaves a table whose last subscriber left in place
Unsubscribed_keep_empty_table(subs, subscriber, publisher, table) ==
    LET s1 == DictSet(subs, publisher,
                      DictSet(subs[publisher], table,
                              subs[publisher][table] \ {subscriber}))
    IN  IF Cardinality(DOMAIN s1[publisher]) = 0
        THEN DictDel(s1, publisher)
        ELSE s1

\* unsubscribe_table that leaves a publisher whose last table went in place
Unsubscribed_keep_empty_publisher(subs, subscriber, publisher, table) ==
    LET s1 == DictSet(subs, publisher,
                      DictSet(subs[publisher], table,
                              subs[publisher][table] \ {subscriber}))
    IN  IF Cardinality(s1[publisher][table]) = 0
        THEN DictSet(s1, publisher, DictDel(s1[publisher], table))
        ELSE s1

\* the dict mutation of unsubscribe_table past its two early returns
Unsubscribed(subs, subscriber, publisher, table) ==
    LET s1 == DictSet(subs, publisher,
                      DictSet(subs[publisher], table,
                              subs[publisher][table] \ {subscriber}))
        s2 == IF Cardinality(s1[publisher][table]) = 0
              THEN DictSet(s1, publisher, DictDel(s1[publisher], table))
              ELSE s1
    IN  IF Cardinality(DOMAIN s2[publisher]) = 0
        THEN DictDel(s2, publisher)
        ELSE s2

\* the value unsubscribe_table returns: False from the two early returns,
\* None when the function runs off its end
unsubscribe_result(subs, subscriber, publisher, table) ==
    IF publisher \notin DOMAIN subs THEN "False"
    ELSE IF table \notin DOMAIN subs[publisher] THEN "False"
    ELSE "None"

\* DseNode.unsubscribe_table; `after_subscribe` tells whether the call made
\* just before was subscribe_table of the same triple on the same node, and
\* `before` is the table that subscribe_table (else this call) started from
unsubscribe_table(n, subscriber, publisher, table) ==
    LET subs == subscriptions[n]
        args == [subscriber |-> subscriber, publisher |-> publisher,
                 table |-> table]
        after_subscribe == /\ last.op = "subscribe_table"
                           /\ last.node = n
                           /\ last.args = args
    IN  /\ IF publisher \notin DOMAIN subs
           THEN UNCHANGED subscriptions
           ELSE IF table \notin DOMAIN subs[publisher]
           THEN UNCHANGED subscriptions
           ELSE subscriptions' = [subscriptions EXCEPT ![n] =
                    Unsubscribed(subs, subscriber, publisher, table)]
        /\ last' = [op |-> "unsubscribe_table", node |-> n, args |-> args,
                    result |-> unsubscribe_result(subs, subscriber, publisher,
                                                  table),
                    calls |-> <<>>,
                    after_subscribe |-> after_subscribe,
                    before |-> IF after_subscribe THEN last.before ELSE subs]
        /\ UNCHANGED <<services, svc_node, svc_server, peers, queue, inbox,
                       npubs, store,
                   published_tables, register_lock, pc>>

\* _update_tables_with_subscriber that leaves out what the peers report
tables_with_subs_local(n, sid) ==
    IF sid \in DOMAIN subscriptions[n] THEN DOMAIN subscriptions[n][sid] ELSE {}

\* _update_tables_with_subscriber: the tables of service sid that have a
\* subscriber on this node or, by the peers' reports, on another node
tables_with_subs(n, sid) ==
    LET local == IF sid \in DOMAIN subscriptions[n]
                 THEN DOMAIN subscriptions[n][sid] ELSE {}
        reported == UNION {peers[n][peer_id].subscribed_tables[sid] :
                              peer_id \in {m \in DOMAIN peers[n] :
                                  sid \in DOMAIN peers[n][m].subscribed_tables}}
    IN  local \cup reported

\* the services that have the hook methods (every DataService has both)
HasHooks == Objs

\* the hook calls one service gets in a refresh
hook_calls(s, tables) ==
    LET added == tables \ published_tables[s]
        removed == published_tables[s] \ tables
    IN  (IF s \in HasHooks /\ Cardinality(added) > 0
         THEN {[service |-> s, hook |-> "on_first_subs", tables |-> added]}
         ELSE {})
        \cup
        (IF s \in HasHooks /\ Cardinality(removed) > 0
         THEN {[service |-> s, hook |-> "on_no_subs", tables |-> removed]}
         ELSE {})

\* DseNode._update_tables_with_subscriber
update_tables_with_subscriber(n) ==
    LET visited == Range(get_services(n, FALSE))
    IN  /\ published_tables' =
               [s \in Objs |->
                   IF s \in visited
                   THEN tables_with_subs(n, service_id_of[s])
                   ELSE published_tables[s]]
        /\ last' = [op |-> "_update_tables_with_subscriber", node |-> n,
                    args |-> NoArgs, result |-> "return", calls |-> <<>>,
                    hooks |-> UNION {hook_calls(s, tables_with_subs(
                                         n, service_id_of[s])) : s \in visited}]
        /\ UNCHANGED <<services, svc_node, svc_server, subscriptions, peers,
                       queue, inbox, npubs, store, register_lock, pc>>

\* -------------------------------------------------------------- publications
\* DseNode.broadcast_node_rpc: a fanout cast reaches the control topic of
\* every node of the partition; `id` names the cast, it is not part of kwargs
broadcast_node_rpc(method, kwargs) ==
    /\ npubs < MaxPubs
    /\ npubs' = npubs + 1
    /\ queue' = [m \in Nodes |->
                    Append(queue[m], [id |-> npubs + 1, method |-> method,
                                      kwargs |-> kwargs])]

\* DseNode.publish_table
publish_table(n, publisher, table, data) ==
    /\ broadcast_node_rpc("handle_publish",
                          [publisher |-> publisher, table |-> table,
                           data |-> data])
    /\ last' = Call("publish_table", n,
                    [publisher |-> publisher, table |-> table], "return", <<>>)
    /\ UNCHANGED <<services, svc_node, svc_server, subscriptions, peers, inbox,
                   store,
                   published_tables, register_lock, pc>>

\* DseNode.publish_table_sequenced
publish_table_sequenced(n, publisher, table, data, is_snapshot, seqnum) ==
    /\ broadcast_node_rpc("handle_publish_sequenced",
                          [publisher |-> publisher, table |-> table,
                           data |-> data, is_snapshot |-> is_snapshot,
                           seqnum |-> seqnum])
    /\ last' = Call("publish_table_sequenced", n,
                    [publisher |-> publisher, table |-> table], "return", <<>>)
    /\ UNCHANGED <<services, svc_node, svc_server, subscriptions, peers, inbox,
                   store,
                   published_tables, register_lock, pc>>

\* the orders in which `for s in <set>` can visit the subscribers
IterationOrders(S) ==
    {f \in [1..Cardinality(S) -> S] :
        \A i, j \in 1..Cardinality(S) : i # j => f[i] # f[j]}

\* how many subscribers the loop reaches before service_object(s) is None
\* and the attribute access on it raises
Reached(n, ord) ==
    IF \E i \in 1..Len(ord) : service_object(services[n], ord[i], None) = None
    THEN (CHOOSE i \in 1..Len(ord) :
            /\ service_object(services[n], ord[i], None) = None
            /\ \A k \in 1..(i - 1) :
                  service_object(services[n], ord[k], None) # None) - 1
    ELSE Len(ord)

\* the loop of handle_publish / handle_publish_sequenced
Forward(n, m, ord, delivery) ==
    LET k == Reached(n, ord)
    IN  /\ inbox' = [o \in Objs |->
                        IF \E i \in 1..k :
                               service_object(services[n], ord[i], None) = o
                        THEN Append(inbox[o], delivery)
                        ELSE inbox[o]]
        /\ last' = Call(m.method, n, [id |-> m.id, order |-> ord],
                        IF k < Len(ord) THEN "AttributeError" ELSE "return",
                        <<>>)

\* DseNodeEndpoints.handle_publish
handle_publish(n) ==
    /\ queue[n] # <<>>
    /\ Head(queue[n]).method = "handle_publish"
    /\ LET m == Head(queue[n])
           a == m.kwargs
       IN  \E ord \in IterationOrders(
                         table_subscribers(subscriptions[n], a.publisher, a.table)) :
               Forward(n, m, ord,
                       [method |-> "receive_data", id |-> m.id,
                        publisher |-> a.publisher, table |-> a.table,
                        data |-> a.data, is_snapshot |-> TRUE])
    /\ queue' = [queue EXCEPT ![n] = Tail(@)]
    /\ UNCHANGED <<services, svc_node, svc_server, subscriptions, peers, npubs,
                   store,
                   published_tables, register_lock, pc>>

\* DseNodeEndpoints.handle_publish_sequenced
handle_publish_sequenced(n) ==
    /\ queue[n] # <<>>
    /\ Head(queue[n]).method = "handle_publish_sequenced"
    /\ LET m == Head(queue[n])
           a == m.kwargs
       IN  \E ord \in IterationOrders(
                         table_subscribers(subscriptions[n], a.publisher, a.table)) :
               Forward(n, m, ord,
                       [method |-> "receive_data_sequenced", id |-> m.id,
                        publisher |-> a.publisher, table |-> a.table,
                        data |-> a.data, seqnum |-> a.seqnum,
                        is_snapshot |-> a.is_snapshot])
    /\ queue' = [queue EXCEPT ![n] = Tail(@)]
    /\ UNCHANGED <<services, svc_node, svc_server, subscriptions, peers, npubs,
                   store,
                   published_tables, register_lock, pc>>

\* --------------------------------------------------------- datasource CRUD
\* name and driver of the record with each id; names are unique in the store
name_of ==
    [id \in RecordIds |->
        CASE id = "u1" -> "a" [] id = "u3" -> "b" [] OTHER -> "d"]

driver_of ==
    [id \in RecordIds |->
        CASE id = "u1" -> "fake" [] id = "u3" -> "broken" [] OTHER -> "ghost"]

\* DseNode.make_datasource_dict; the config blob is kept by its keys only and
\* is not part of the persisted record of the model
Record(id, enabled) ==
    [id |-> id, name |-> name_of[id], driver |-> driver_of[id],
     enabled |-> enabled]

\* DseNode.loaded_drivers: driver id -> declared options; "ghost" is a driver
\* that records in the store name but this node has not loaded
LoadedDrivers == {"fake", "broken"}

DriverConfig ==
    [d \in LoadedDrivers |-> [user |-> "required", poll |-> "optional"]]

\* the loaded drivers whose class can be imported and constructed
Instantiable == {"fake"}

\* option keys a request may carry
ConfigKeys == {"user", "bogus"}

\* exceptions that end a synchronization pass
PassErrors == {"DriverNotFound", "DataServiceError", "AssertionError",
               "AttributeError", "TypeError"}

\* validate_create_datasource that accepts options outside the schema
validate_create_datasource_any_option(req) ==
    IF req.driver \notin LoadedDrivers THEN "InvalidDriver"
    ELSE LET loaded_driver == DriverConfig[req.driver]
             required_options == {k \in DOMAIN loaded_driver :
                                      loaded_driver[k] = "required"}
             missing_options == required_options \ req.config
         IN  IF missing_options # {} THEN "MissingRequiredConfigOptions"
             ELSE "ok"

\* DseNode.validate_create_datasource: "ok" or the exception it raises
validate_create_datasource(req) ==
    IF req.driver \notin LoadedDrivers THEN "InvalidDriver"
    ELSE LET loaded_driver == DriverConfig[req.driver]
             specified_options == req.config
             valid_options == DOMAIN loaded_driver
             invalid_options == specified_options \ valid_options
             required_options == {k \in DOMAIN loaded_driver :
                                      loaded_driver[k] = "required"}
             missing_options == required_options \ specified_options
         IN  IF invalid_options # {} THEN "InvalidDriverOption"
             ELSE IF missing_options # {} THEN "MissingRequiredConfigOptions"
             ELSE "ok"

\* DseNode.create_datasource_service: the new service object, None for a
\* disabled record, or the exception raised
create_datasource_service(datasource) ==
    IF ~datasource.enabled THEN None
    ELSE IF datasource.driver \notin LoadedDrivers THEN "DriverNotFound"
    ELSE IF datasource.driver \notin Instantiable THEN "DataServiceError"
    ELSE DsObj[datasource.id]

\* the registry of a node while a pass runs: host list, service.node and the
\* rpc-server state of every object, the two counters and how the pass ended
PassState(list, node, server) ==
    [services |-> list, svc_node |-> node, svc_server |-> server,
     added |-> 0, removed |-> 0, result |-> "return",
     \* ids of the records whose service could not be created
     create_failed |-> {}]

\* a counter of the pass goes up once the call before it has returned
Counted(w, counter) ==
    IF w.result # "return" THEN w ELSE [w EXCEPT ![counter] = @ + 1]

\* a service object just constructed: bound to no node, server not started
Constructed(w, o) ==
    [w EXCEPT !.svc_node[o] = None, !.svc_server[o] = "none"]

\* register_service, as called from within a pass
registered(w, n, o) ==
    IF w.svc_node[o] # None
    THEN [w EXCEPT !.result = "AssertionError"]
    ELSE IF service_object(w.services, service_id_of[o], None) # None
    THEN [w EXCEPT !.result = "DataServiceError"]
    ELSE [w EXCEPT !.services = Append(@, o),
                   !.svc_node[o] = n,
                   !.svc_server[o] = "started"]

\* unregister_service that leaves the service in the host list
unregistered_keep(w, sid, uuid_) ==
    LET service == service_object(w.services, sid, uuid_)
    IN  IF service = "TypeError" THEN [w EXCEPT !.result = "TypeError"]
        ELSE IF service # None
        THEN [w EXCEPT !.svc_server[service] = "stopped"]
        ELSE [w EXCEPT !.result = "AttributeError"]

\* unregister_service, as called from within a pass
unregistered(w, sid, uuid_) ==
    LET service == service_object(w.services, sid, uuid_)
    IN  IF service = "TypeError" THEN [w EXCEPT !.result = "TypeError"]
        ELSE IF service # None
        THEN [w EXCEPT !.services = ListRemove(@, service),
                       !.svc_server[service] = "stopped"]
        ELSE [w EXCEPT !.result = "AttributeError"]

\* synchronize_datasources, first loop: the records of the store in order;
\* an exception of any call ends the loop and the pass
RECURSIVE sync_configured(_, _, _, _)
sync_configured(n, datasources, i, w) ==
    IF i > Len(datasources) \/ w.result # "return" THEN w
    ELSE LET configured_ds == datasources[i]
             active_ds == service_object(w.services, None, configured_ds.id)
             after ==
                 IF ~configured_ds.enabled
                 THEN IF active_ds # None
                      THEN Counted(unregistered(w, service_id_of[active_ds],
                                                None), "removed")
                      ELSE w
                 ELSE IF active_ds = None
                 THEN LET service == create_datasource_service(configured_ds)
                      IN  IF service \in PassErrors
                          THEN [w EXCEPT !.result = service,
                                         !.create_failed =
                                             @ \cup {configured_ds.id}]
                          ELSE Counted(registered(Constructed(w, service), n,
                                                  service), "added")
                 ELSE w
         IN  sync_configured(n, datasources, i + 1, after)

\* synchronize_datasources, second loop: the stale services in list order
RECURSIVE sync_stale(_, _, _)
sync_stale(stale_services, i, w) ==
    IF i > Len(stale_services) \/ w.result # "return" THEN w
    ELSE sync_stale(stale_services, i + 1,
                    Counted(unregistered(w, None, ds_id_of[stale_services[i]]),
                            "removed"))

\* DseNode.synchronize_datasources as a function of the registry and the
\* records that get_datasources returned
sync_pass(n, w, datasources) ==
    LET looped == sync_configured(n, datasources, 1, w)
        db_datasources_set == {datasources[i].id : i \in 1..Len(datasources)}
        stale_services ==
            SelectSeq(looped.services,
                      LAMBDA s : /\ type_of[s] = "datasource_driver"
                                 /\ ds_id_of[s] \notin db_datasources_set)
    IN  sync_stale(stale_services, 1, looped)

\* DseNode.synchronize_datasources
synchronize_datasources(n) ==
    LET w == sync_pass(n, PassState(services[n], svc_node, svc_server), store)
    IN  /\ services' = [services EXCEPT ![n] = w.services]
        /\ svc_node' = w.svc_node
        /\ svc_server' = w.svc_server
        /\ last' = [op |-> "synchronize_datasources", node |-> n,
                    args |-> NoArgs, result |-> w.result, calls |-> <<>>,
                    added |-> w.added, removed |-> w.removed,
                    create_failed |-> w.create_failed,
                    \* what the pass right before this one had counted
                    follows_pass |-> last.op = "synchronize_datasources",
                    previous_changes |->
                        IF last.op = "synchronize_datasources"
                        THEN last.added + last.removed ELSE 0]
        /\ UNCHANGED <<subscriptions, peers, queue, inbox, npubs, store,
                   published_tables, register_lock, pc>>

\* synchronize without its try block
synchronize_outcome_uncaught(pass_result) == pass_result

\* DseNode.synchronize: except Exception -> LOG.exception, nothing re-raised
synchronize_outcome(pass_result) == "return"

\* DseNode.synchronize, one tick of the periodic worker
synchronize(n) ==
    LET w == sync_pass(n, PassState(services[n], svc_node, svc_server), store)
    IN  /\ services' = [services EXCEPT ![n] = w.services]
        /\ svc_node' = w.svc_node
        /\ svc_server' = w.svc_server
        /\ last' = [op |-> "synchronize", node |-> n, args |-> NoArgs,
                    result |-> synchronize_outcome(w.result), calls |-> <<>>,
                    pass_result |-> w.result,
                    previous_tick |-> IF last.op = "synchronize"
                                      THEN last.pass_result ELSE "none"]
        /\ UNCHANGED <<subscriptions, peers, queue, inbox, npubs, store,
                   published_tables, register_lock, pc>>

\* the ids and the names of the records of a store
StoredIds(db) == {db[i].id : i \in 1..Len(db)}
StoredNames(db) == {db[i].name : i \in 1..Len(db)}

\* datasources_db.delete_datasource
db_deleted(db, id) == SelectSeq(db, LAMBDA r : r.id # id)

\* DseNode.add_datasource with update_db=True; no policy engine is hosted
add_datasource(n, item) ==
    LET req == [id |-> item.id, name |-> name_of[item.id],
                driver |-> driver_of[item.id], config |-> item.config,
                enabled |-> item.enabled]
        validation == validate_create_datasource(req)
        rejected(exc) ==
            /\ last' = [op |-> "add_datasource", node |-> n, args |-> req,
                        result |-> exc, calls |-> <<>>, persisted |-> FALSE,
                        pass_result |-> "not run"]
            /\ UNCHANGED <<services, svc_node, svc_server, store>>
        persisted == Append(store, Record(req.id, req.enabled))
        w == sync_pass(n, PassState(services[n], svc_node, svc_server),
                       persisted)
    IN  /\ IF validation # "ok" THEN rejected(validation)
           ELSE IF is_valid_service(n, req.name)
           THEN rejected("DatasourceNameInUse")
           ELSE IF req.id \in StoredIds(store) \/ req.name \in StoredNames(store)
           THEN \* db_exc.DBDuplicateEntry
                rejected("DatasourceNameInUse")
           ELSE /\ services' = [services EXCEPT ![n] = w.services]
                /\ svc_node' = w.svc_node
                /\ svc_server' = w.svc_server
                /\ IF w.result \in {"return", "DataServiceError"}
                   THEN store' = persisted
                   ELSE store' = db_deleted(persisted, req.id)
                /\ last' = [op |-> "add_datasource", node |-> n, args |-> req,
                            result |-> IF w.result \in {"return",
                                                        "DataServiceError"}
                                       THEN "return"
                                       ELSE "DatasourceCreationError",
                            calls |-> <<>>, persisted |-> TRUE,
                            pass_result |-> w.result]
        /\ UNCHANGED <<subscriptions, peers, queue, inbox, npubs,
                   published_tables, register_lock, pc>>

\* `with session.begin(subtransactions=True)`: what was written inside the
\* block is kept when the block ends normally and undone when it raises
session_begin(db_before, db_written, raised) ==
    IF raised THEN db_before ELSE db_written

\* DseNode.delete_datasource with update_db=True; the derived table data of a
\* record live and die with the record in the same transaction
delete_datasource(n, id) ==
    LET datasource == [id |-> id, name |-> name_of[id]]
        existed == id \in StoredIds(store)
        service == service_object(services[n], datasource.name, None)
        result == IF ~existed THEN "DatasourceNotFound"
                  ELSE IF service = None
                  THEN \* unregister_service: service.service_id on None
                       "AttributeError"
                  ELSE "return"
    IN  /\ store' = session_begin(store, db_deleted(store, id),
                                  result # "return")
        /\ IF result = "return"
           THEN /\ services' = [services EXCEPT ![n] = ListRemove(@, service)]
                /\ svc_server' = [svc_server EXCEPT ![service] = "stopped"]
           ELSE UNCHANGED <<services, svc_server>>
        /\ last' = [op |-> "delete_datasource", node |-> n,
                    args |-> datasource, result |-> result, calls |-> <<>>,
                    existed |-> existed,
                    hosted |-> service # None]
        /\ UNCHANGED <<svc_node, subscriptions, peers, queue, inbox, npubs,
                   published_tables, register_lock, pc>>

\* datasource store: a record is inserted by another writer
db_add(id, enabled) ==
    /\ id \notin StoredIds(store)
    /\ name_of[id] \notin StoredNames(store)
    /\ store' = Append(store, Record(id, enabled))
    /\ last' = Call("db_add", None, [id |-> id], "return", <<>>)
    /\ UNCHANGED <<services, svc_node, svc_server, subscriptions, peers, queue,
                   inbox, npubs,
                   published_tables, register_lock, pc>>

\* datasource store: a record is deleted by another writer
db_delete(id) ==
    /\ id \in StoredIds(store)
    /\ store' = db_deleted(store, id)
    /\ last' = Call("db_delete", None, [id |-> id], "return", <<>>)
    /\ UNCHANGED <<services, svc_node, svc_server, subscriptions, peers, queue,
                   inbox, npubs,
                   published_tables, register_lock, pc>>

\* datasource store: the enabled flag of a record is rewritten
db_set_enabled(id, enabled) ==
    /\ \E i \in 1..Len(store) : store[i].id = id /\ store[i].enabled # enabled
    /\ store' = [i \in 1..Len(store) |->
                    IF store[i].id = id
                    THEN [store[i] EXCEPT !.enabled = enabled] ELSE store[i]]
    /\ last' = Call("db_set_enabled", None, [id |-> id], "return", <<>>)
    /\ UNCHANGED <<services, svc_node, svc_server, subscriptions, peers, queue,
                   inbox, npubs,
                   published_tables, register_lock, pc>>

\* ------------------------------------------------------------- rpc targets
\* strings are sequences of characters here, so that concatenation is real;
\* the three fixed names of the class are single symbols no id contains
CONTROL_TOPIC == <<"congress-control">>
SERVICE_TOPIC_PREFIX == <<"congress-service-">>
DefaultBusId == <<"bus">>

\* characters ids are made of
IdChars == {"1", "-"}

\* the strings over IdChars of length lo..hi
Strings(lo, hi) == UNION {[1..k -> IdChars] : k \in lo..hi}

\* service ids, and the partition_id arguments of DseNode(): a str (possibly
\* empty) or a positive int, the int given by its decimal digits
TopicServiceIds == Strings(1, MaxIdLen)
PartitionArgs ==
    {[type |-> "str", chars |-> s] : s \in Strings(0, MaxIdLen)}
        \cup {[type |-> "int", chars |-> s] : s \in [1..1 -> {"1"}]}

\* __init__: self.partition_id = partition_id or cfg.CONF.bus_id or "bus"
partition_id_of(arg) ==
    IF arg.chars = <<>> THEN [type |-> "str", chars |-> DefaultBusId] ELSE arg

\* str(partition_id)
str(partition_id) == partition_id.chars

\* DseNode._add_partition with the node's partition_id, which is never None
add_partition(topic, partition_id) == topic \o <<"-">> \o str(partition_id)

\* topic of DseNode.node_rpc_target
node_rpc_topic(partition_id) == add_partition(CONTROL_TOPIC, partition_id)

\* topic of DseNode.service_rpc_target
service_rpc_topic(partition_id, service_id) ==
    add_partition(SERVICE_TOPIC_PREFIX \o service_id, partition_id)

\* the record of a target built on node n, next to the target that was built
\* last on the other node
Target(op, n, partition_id, service_id, topic) ==
    LET other == last.op \in {"node_rpc_target", "service_rpc_target"}
                     /\ last.node # n
    IN  [op |-> op, node |-> n,
         args |-> [partition_id |-> partition_id, service_id |-> service_id],
         result |-> topic, calls |-> <<>>,
         other_partition_id |-> IF other THEN last.args.partition_id
                                ELSE partition_id,
         other_topic |-> IF other THEN last.result ELSE topic]

\* DseNode.node_rpc_target on a node constructed with partition_id = arg
node_rpc_target(n, arg) ==
    /\ last' = Target("node_rpc_target", n, partition_id_of(arg), <<>>,
                      node_rpc_topic(partition_id_of(arg)))
    /\ UNCHANGED <<services, svc_node, svc_server, subscriptions, peers, queue,
                   inbox, npubs, store,
                   published_tables, register_lock, pc>>

\* DseNode.service_rpc_target on a node constructed with partition_id = arg
service_rpc_target(n, arg, service_id) ==
    /\ last' = Target("service_rpc_target", n, partition_id_of(arg), service_id,
                      service_rpc_topic(partition_id_of(arg), service_id))
    /\ UNCHANGED <<services, svc_node, svc_server, subscriptions, peers, queue,
                   inbox, npubs, store,
                   published_tables, register_lock, pc>>

\* ------------------------------------------------------------ specifications
\* DseNode.__init__: the control bus is registered, nothing else is hosted
Init ==
    /\ services = [n \in Nodes |-> <<ControlBus[n]>>]
    /\ svc_node = [o \in Objs |->
                      IF \E n \in Nodes : ControlBus[n] = o
                      THEN CHOOSE n \in Nodes : ControlBus[n] = o
                      ELSE None]
    /\ svc_server = [o \in Objs |->
                        IF \E n \in Nodes : ControlBus[n] = o
                        THEN "started" ELSE "none"]
    /\ subscriptions = [n \in Nodes |-> EmptyDict]
    /\ peers = [n \in Nodes |-> EmptyDict]
    /\ queue = [n \in Nodes |-> <<>>]
    /\ inbox = [o \in Objs |-> <<>>]
    /\ npubs = 0
    /\ store = <<>>
    /\ published_tables = [o \in Objs |-> {}]
    /\ register_lock = None
    /\ pc = [c \in Contexts |-> Idle]
    /\ last = Call("__init__", None, NoArgs, "return", <<>>)

\* register / unregister calls on the nodes of one deployment
NextRegistry ==
    \/ \E n \in Nodes, o \in Objs \ (DsObjs \cup ApiObjs) :
           register_service(n, o)
    \/ \E n \in Nodes, sid \in ServiceIds \cup {None}, u \in Uuids \cup {None} :
           unregister_service(n, sid, u)

SpecRegistry == Init /\ [][NextRegistry]_vars

\* subscribe / unsubscribe calls of the services of node n1, while the
\* publisher "b" comes up on either node and is seen by the control bus
NextSubs ==
    \/ \E s \in Subscribers, p \in Publishers, tb \in Tables :
           subscribe_table("n1", s, p, tb)
    \/ \E s \in Subscribers, p \in Publishers, tb \in Tables :
           unsubscribe_table("n1", s, p, tb)
    \/ \E n \in Nodes : register_service(n, "s3")
    \/ heartbeat("n1")

SpecSubs == Init /\ [][NextSubs]_vars

\* publications of publisher "b" cast from either node and dispatched on
\* both, while services "a" and "b" of node n1 come up and (un)subscribe and
\* "a" is unregistered
NextPub ==
    \/ \E o \in {"s1", "s3"} : register_service("n1", o)
    \/ unregister_service("n1", "a", None)
    \/ \E s \in Subscribers : subscribe_table("n1", s, "b", "t1")
    \/ \E s \in Subscribers : unsubscribe_table("n1", s, "b", "t1")
    \/ \E tb \in Tables : publish_table("n2", "b", tb, "d1")
    \/ \E x \in SequencedUpdates :
           publish_table_sequenced("n2", "b", "t1", x.data, x.is_snapshot,
                                   x.seqnum)
    \/ \E n \in Nodes : handle_publish(n)
    \/ \E n \in Nodes : handle_publish_sequenced(n)

SpecPub == Init /\ [][NextPub]_vars

\* service RPCs issued from either node while services "a" and "b" come and
\* go on both nodes and the control bus refreshes the peer observations
NextRpc ==
    \/ \E n \in Nodes, o \in UserObjs : register_service(n, o)
    \/ \E n \in Nodes, sid \in {"a", "b"} : unregister_service(n, sid, None)
    \/ \E n \in Nodes : heartbeat(n)
    \/ \E n \in Nodes, sid \in {"a", "b", "c"}, local \in BOOLEAN :
           invoke_service_rpc(n, sid, local)
    \/ \E n \in Nodes, sid \in ServiceIds : broadcast_service_rpc(n, sid)

SpecRpc == Init /\ [][NextRpc]_vars

\* the datasource synchronizer of node n1 and its add_datasource, over a store
\* that other writers change, while services with the id "a" are registered
\* by hand
NextSync ==
    \/ \E o \in {"s1", "s2"} : register_service("n1", o)
    \/ unregister_service("n1", "a", None)
    \/ \E id \in RecordIds, enabled \in BOOLEAN : db_add(id, enabled)
    \/ \E id \in RecordIds : db_delete(id)
    \/ \E id \in RecordIds, enabled \in BOOLEAN : db_set_enabled(id, enabled)
    \/ synchronize_datasources("n1")
    \/ synchronize("n1")
    \/ \E id \in RecordIds, config \in SUBSET ConfigKeys, enabled \in BOOLEAN :
           add_datasource("n1", [id |-> id, config |-> config,
                                 enabled |-> enabled])

SpecSync == Init /\ [][NextSync]_vars

\* datasources are deleted on node n1 while its synchronizer brings their
\* services up and down and records are written and disabled in the store
NextDelete ==
    \/ \E id \in RecordIds, enabled \in BOOLEAN : db_add(id, enabled)
    \/ \E id \in RecordIds, enabled \in BOOLEAN : db_set_enabled(id, enabled)
    \/ synchronize_datasources("n1")
    \/ \E id \in RecordIds : delete_datasource("n1", id)

SpecDelete == Init /\ [][NextDelete]_vars

\* services come and go on both nodes, unregister_service being seen in its
\* two halves, while other execution contexts look services up
NextUnregister ==
    \/ \E n \in Nodes, o \in UserObjs : register_service(n, o)
    \/ \E n \in Nodes, sid \in {"a", "b"} : unregister_service_stop(n, sid)
    \/ \E n \in Nodes, o \in UserObjs : unregister_service_wait(n, o)
    \/ \E n \in Nodes, sid \in {"a", "b"} : lookup(n, sid)

SpecUnregister == Init /\ [][NextUnregister]_vars

\* service "a" subscribes and unsubscribes, on both nodes, to tables of the
\* publisher "b" that node n1 hosts, and on n1 to a table of the hidden
\* control bus, while n1 hears from its peer and refreshes its services
NextHooks ==
    \/ register_service("n1", "s3")
    \/ \E n \in Nodes, tb \in Tables : subscribe_table(n, "a", "b", tb)
    \/ \E n \in Nodes, tb \in Tables : unsubscribe_table(n, "a", "b", tb)
    \/ subscribe_table("n1", "a", "_control_bus", "t1")
    \/ heartbeat("n1")
    \/ update_tables_with_subscriber("n1")

SpecHooks == Init /\ [][NextHooks]_vars

\* three execution contexts of node n1 register services with the id "a" at
\* the same time: a caller with s1 or s2, and the passes of the periodic
\* synchronizer and of an add_datasource request, each with the service it
\* built for record u1
NextLock ==
    \/ \E o \in {"s1", "s2"} : register_call("caller", "n1", o)
    \/ register_from_pass("periodic", "n1", "u1", "d1")
    \/ register_from_pass("api", "n1", "u1", "e1")
    \/ \E c \in Contexts : register_acquire(c)
    \/ \E c \in Contexts : register_check(c, "n1")
    \/ \E c \in Contexts : register_insert(c, "n1")
    \/ \E c \in Contexts, started \in BOOLEAN : register_start(c, "n1", started)
    \/ unregister_service("n1", "a", None)

SpecLock == Init /\ [][NextLock]_vars

\* control and service targets built on nodes of any partition
NextTopics ==
    \/ \E n \in Nodes, arg \in PartitionArgs : node_rpc_target(n, arg)
    \/ \E n \in Nodes, arg \in PartitionArgs, sid \in TopicServiceIds :
           service_rpc_target(n, arg, sid)

SpecTopics == Init /\ [][NextTopics]_vars

\* every call on every node; the specifications above are its parts, each
\* with the inputs its operations need
Next == NextRegistry \/ NextSubs \/ NextPub \/ NextRpc \/ NextSync
            \/ NextTopics \/ NextDelete \/ NextUnregister \/ NextHooks
            \/ NextLock

Spec == Init /\ [][Next]_vars

\* ------------------------------------------------------------ service registry
HostedIds(n) == {service_id_of[s] : s \in Range(services[n])}

\* C1: on every node the host list never holds two services with the same
\* service_id, and right after unregister_service(service_id=X) has returned,
\* service_object(service_id=X) on that node is None.
C1_UniqueIdsAndLookupAbsentAfterUnregister ==
    /\ \A n \in Nodes : \A i, j \in 1..Len(services[n]) :
           i # j => service_id_of[services[n][i]] # service_id_of[services[n][j]]
    /\ (/\ last.op = "unregister_service"
        /\ last.result = "return"
        /\ last.args.service_id # None)
       => service_object(services[last.node], last.args.service_id, None) = None

\* C1 witness: unregister_service(service_id="a") has returned on a node that
\* still hosts another data service, after a second service with id "a" had
\* been created and bound somewhere.
C1_Witness ==
    /\ last.op = "unregister_service"
    /\ last.result = "return"
    /\ last.args.service_id = "a"
    /\ "b" \in HostedIds(last.node)
    /\ svc_node["s1"] # None /\ svc_node["s2"] # None

\* C2: unregister_service with a selector that matches no hosted service
\* returns normally and leaves the host list unchanged.
C2_UnregisterWithoutMatchIsNoop ==
    [][(/\ last'.op = "unregister_service"
        /\ service_object(services[last'.node], last'.args.service_id,
                          last'.args.uuid_) = None)
       => (last'.result = "return" /\ services' = services)]_vars

C4_IdOnAtMostOneNode ==
    \A n, m \in Nodes : \A s \in Range(services[n]), r \in Range(services[m]) :
        (n # m /\ s \in UserObjs /\ r \in UserObjs)
            => service_id_of[s] # service_id_of[r]

\* C4 amended: register_service of a not yet bound service is rejected
\* exactly when the host list of the node it is called on already has the
\* service_id; what other nodes host plays no part, and otherwise the service
\* is appended to that node's host list.
C4_RegistrationChecksOwnNodeOnly ==
    [][(last'.op = "register_service" /\ svc_node[last'.args.obj] = None)
       => IF service_id_of[last'.args.obj] \in HostedIds(last'.node)
          THEN last'.result = "DataServiceError"
          ELSE /\ last'.result = "return"
               /\ services'[last'.node] =
                      Append(services[last'.node], last'.args.obj)]_vars

\* C4 witness: a registration has just been accepted on one node while the
\* other node hosts a service with the same service_id.
C4_Witness ==
    /\ last.op = "register_service"
    /\ last.result = "return"
    /\ \E m \in Nodes \ {last.node} :
           service_id_of[last.args.obj] \in HostedIds(m)

\* ---------------------------------------------------------- subscription table
\* C5: in every reachable state no publisher key of a subscription table maps
\* to an empty table mapping and no table key maps to an empty subscriber set.
C5_NoEmptyEntries ==
    \A n \in Nodes : \A p \in DOMAIN subscriptions[n] :
        /\ DOMAIN subscriptions[n][p] # {}
        /\ \A tb \in DOMAIN subscriptions[n][p] : subscriptions[n][p][tb] # {}

\* C5 witness: unsubscribe_table has just removed the last subscriber of the
\* last table of a publisher (the publisher key is gone) while the other
\* publisher still has subscribers.
C5_Witness ==
    /\ last.op = "unsubscribe_table"
    /\ last.result = "None"
    /\ last.args.publisher \in DOMAIN last.before
    /\ last.args.publisher \notin DOMAIN subscriptions[last.node]
    /\ DOMAIN subscriptions[last.node] # {}

\* C6 as claimed: unsubscribe_table called right after subscribe_table of the
\* same triple leaves the subscription table as it was before the subscribe.
C6_SubscribeUnsubscribeRestores ==
    (last.op = "unsubscribe_table" /\ last.after_subscribe)
        => subscriptions[last.node] = last.before

\* C6 amended: the pair restores the table when the subscriber was not in the
\* (publisher, table) subscriber set before the subscribe; when it was, the
\* pair has removed that earlier subscription.
C6_RestoresUnlessAlreadySubscribed ==
    (last.op = "unsubscribe_table" /\ last.after_subscribe)
        => LET a == last.args
           IN  IF a.subscriber \notin
                      table_subscribers(last.before, a.publisher, a.table)
               THEN subscriptions[last.node] = last.before
               ELSE a.subscriber \notin
                       table_subscribers(subscriptions[last.node],
                                         a.publisher, a.table)

\* C6 witness: a subscribe/unsubscribe pair of a triple whose publisher had no
\* entry before has run on a table that has other entries.
C6_Witness ==
    /\ last.op = "unsubscribe_table"
    /\ last.after_subscribe
    /\ last.args.publisher \notin DOMAIN last.before
    /\ DOMAIN last.before # {}

\* C7: unsubscribe_table returns True exactly when the subscriber was in the
\* (publisher, table) subscriber set before the call, and a false value (False
\* or None) when nothing was removed.
C7_ReturnsWhetherRemoved ==
    [][last'.op = "unsubscribe_table"
       => LET a == last'.args
          IN  IF a.subscriber \in table_subscribers(subscriptions[last'.node],
                                                   a.publisher, a.table)
              THEN last'.result = "True"
              ELSE last'.result \in {"False", "None"}]_vars

\* ------------------------------------------------------ publication dispatcher
\* the receive_data* calls a service object got for cast number id
DeliveriesOf(box, id) == {i \in 1..Len(box) : box[i].id = id}

\* a service object got the publications of each (publisher, table) in the
\* order in which they were cast on the bus
InCastOrder(box) ==
    \A i, j \in 1..Len(box) :
        (/\ i < j
         /\ box[i].publisher = box[j].publisher
         /\ box[i].table = box[j].table) => box[i].id < box[j].id

\* C8: handle_publish_sequenced calls receive_data_sequenced, with the data,
\* seqnum and is_snapshot it was invoked with, on every service that is in the
\* subscriber set of (publisher, table); with no subscribers it delivers
\* nothing and returns normally.
C8_SequencedReachesEverySubscriber ==
    [][last'.op = "handle_publish_sequenced"
       => LET n == last'.node
              m == Head(queue[n])
              a == m.kwargs
              subs == table_subscribers(subscriptions[n], a.publisher, a.table)
          IN  /\ \A s \in subs :
                    LET o == service_object(services[n], s, None)
                    IN  o # None =>
                          inbox'[o] = Append(inbox[o],
                              [method |-> "receive_data_sequenced", id |-> m.id,
                               publisher |-> a.publisher, table |-> a.table,
                               data |-> a.data, seqnum |-> a.seqnum,
                               is_snapshot |-> a.is_snapshot])
              /\ subs = {} => (inbox' = inbox /\ last'.result = "return")]_vars

\* C9: for each publication the dispatcher handles, every local subscriber of
\* (publisher, table) gets that publication exactly once, and each service
\* gets the publications of one (publisher, table) in the order of the casts.
C9_ExactlyOnceInOrder ==
    [][last'.op \in {"handle_publish", "handle_publish_sequenced"}
       => LET n == last'.node
              m == Head(queue[n])
              subs == table_subscribers(subscriptions[n], m.kwargs.publisher,
                                        m.kwargs.table)
          IN  /\ \A s \in subs :
                    LET o == service_object(services[n], s, None)
                    IN  o # None =>
                          Cardinality(DeliveriesOf(inbox'[o], m.id)) = 1
              /\ \A o \in Objs : InCastOrder(inbox'[o])]_vars

\* ------------------------------------------------------------------ RPC gateway
\* no node hosts a service with this id
HostedNowhere(sid) == \A m \in Nodes : sid \notin HostedIds(m)

\* C10: invoke_service_rpc against a service_id that no node hosts and that is
\* not in the global service names ends in NotFound after a single failed
\* ping, never in a raw transport error; and whenever the ping fails, no
\* other call is issued.
C10_UnknownServiceIsNotFound ==
    last.op = "invoke_service_rpc"
        => /\ (/\ HostedNowhere(last.args.service_id)
               /\ ~is_valid_service(last.node, last.args.service_id))
              => (/\ last.result = "NotFound"
                  /\ Len(last.calls) = 1
                  /\ last.calls[1].rpc = "ping"
                  /\ last.calls[1].outcome \in TransportErrors)
           /\ \A i \in 1..Len(last.calls) :
                 (last.calls[i].rpc = "ping"
                    /\ last.calls[i].outcome \in TransportErrors)
                 => (Len(last.calls) = i /\ last.result = "NotFound")

\* C10 witness: the call went to service "a", which was hosted earlier and
\* has been unregistered, from a node that has a peer observation.
C10_Witness ==
    /\ last.op = "invoke_service_rpc"
    /\ last.args.service_id = "a"
    /\ svc_node["s1"] # None
    /\ HostedNowhere("a")
    /\ ~is_valid_service(last.node, "a")
    /\ DOMAIN peers[last.node] # {}
    /\ last.result = "NotFound"

\* some transport call of the last operation ended in a transport error
TransportFailed == \E i \in 1..Len(last.calls) :
                       last.calls[i].outcome \in TransportErrors

\* C11 as claimed: no service-targeted RPC operation ends in a raw transport
\* error; when a transport call site fails the caller sees NotFound.
C11_TransportErrorsNeverRaw ==
    last.op \in {"invoke_service_rpc", "broadcast_service_rpc"}
        => /\ last.result \notin TransportErrors
           /\ TransportFailed => last.result = "NotFound"

\* C11 amended: invoke_service_rpc turns a timeout or delivery failure of its
\* ping and of its real call into NotFound; broadcast_service_rpc does not
\* translate, a delivery failure of its cast reaches the caller as it is.
C11_OnlyInvokeTranslates ==
    /\ last.op = "invoke_service_rpc"
          => /\ last.result \notin TransportErrors
             /\ TransportFailed => last.result = "NotFound"
    /\ last.op = "broadcast_service_rpc"
          => (TransportFailed => last.result = "MessageDeliveryFailure")

\* C11 witness: the ping was answered and the real call then timed out.
C11_Witness ==
    /\ last.op = "invoke_service_rpc"
    /\ Len(last.calls) = 2
    /\ last.calls[1].outcome = "ok"
    /\ last.calls[2].outcome = "MessagingTimeout"
    /\ last.result = "NotFound"

\* the names a node takes for live: the ids of its own services, hidden ones
\* included, and the ids its peers advertise
KnownNames(n) ==
    HostedIds(n) \cup UNION {peers[n][m].services : m \in DOMAIN peers[n]}

\* C12: broadcast_service_rpc of an id outside the global service names ends
\* in NotFound without any transport call; of an id inside them it sends
\* exactly one cast and no ping.
C12_BroadcastChecksGlobalNames ==
    last.op = "broadcast_service_rpc"
        => IF last.args.service_id \in KnownNames(last.node)
           THEN /\ Len(last.calls) = 1
                /\ last.calls[1].rpc = "cast"
                /\ last.result # "NotFound"
           ELSE /\ last.result = "NotFound"
                /\ last.calls = <<>>

\* C12 witness: a cast went out for an id that only a peer advertises, from a
\* node where another broadcast would be refused.
C12_Witness ==
    /\ last.op = "broadcast_service_rpc"
    /\ last.result = "return"
    /\ last.args.service_id \notin HostedIds(last.node)
    /\ "c" \notin KnownNames(last.node)

\* the last call was a pass of the synchronizer
IsPass(call) == call.op = "synchronize_datasources"

HostedDatasources(n) ==
    {o \in Range(services[n]) : type_of[o] = "datasource_driver"}

\* the services a node hosts for a record: same name and same internal id
ServicesOf(n, r) ==
    {o \in Range(services[n]) :
        service_id_of[o] = r.name /\ ds_id_of[o] = r.id}

\* C14 as claimed: after every pass each enabled record of the store has
\* exactly one hosted service with its name and id, and every hosted
\* driver-backed service belongs to an enabled record of the store.
C14_HostedMatchEnabledRecords ==
    last.op \in {"synchronize_datasources", "synchronize"}
        => /\ \A i \in 1..Len(store) :
                  store[i].enabled
                      => Cardinality(ServicesOf(last.node, store[i])) = 1
           /\ \A o \in HostedDatasources(last.node) :
                  \E i \in 1..Len(store) :
                      store[i].enabled /\ store[i].id = ds_id_of[o]

\* C15 as claimed: a pass in which the service of one record could not be
\* created is not aborted: it returns, every other enabled record whose
\* service can be created and whose name is free has its service hosted, and
\* no stale driver-backed service is left.
C15_BadRecordDoesNotAbortPass ==
    (IsPass(last) /\ last.create_failed # {})
        => /\ last.result = "return"
           /\ \A i \in 1..Len(store) :
                  (/\ store[i].enabled
                   /\ store[i].id \notin last.create_failed
                   /\ create_datasource_service(store[i]) \notin PassErrors)
                      => \E o \in Range(services[last.node]) :
                             \/ ds_id_of[o] = store[i].id
                             \/ service_id_of[o] = store[i].name
           /\ \A o \in HostedDatasources(last.node) :
                  ds_id_of[o] \in StoredIds(store)

\* C16: a tick of the periodic task returns normally whatever exception its
\* pass ended in, and what the pass had done up to there stays done.
C16_TickNeverRaises ==
    last.op = "synchronize"
        => /\ last.result = "return"
           /\ last.pass_result \in PassErrors \cup {"return"}

\* C16 witness: a tick whose pass raised has run right after a tick whose
\* pass had raised too.
C16_Witness ==
    /\ last.op = "synchronize"
    /\ last.pass_result = "DataServiceError"
    /\ last.previous_tick \in PassErrors
    /\ last.result = "return"

\* C17 as claimed: when the pass that add_datasource runs after persisting
\* the record fails, the record is deleted from the store again.
C17_FailureAfterPersistDeletesRecord ==
    (/\ last.op = "add_datasource"
     /\ last.persisted
     /\ last.pass_result # "return")
        => last.args.id \notin StoredIds(store)

\* the results add_datasource gives before it persists anything
Rejections == {"InvalidDriverOption", "MissingRequiredConfigOptions",
               "InvalidDriver", "DatasourceNameInUse"}

\* C18: add_datasource of a request with an unknown driver ends in
\* InvalidDriver, with a key outside the driver's schema in
\* InvalidDriverOption, with a required key missing in
\* MissingRequiredConfigOptions, with the name of a live service in
\* DatasourceNameInUse; a rejected request persists nothing, runs no pass and
\* leaves the store and the host lists as they were.
C18_RejectedRequestChangesNothing ==
    [][last'.op = "add_datasource"
          => LET req == last'.args
                 result == last'.result
                 unknown_driver == req.driver \notin LoadedDrivers
                 schema == DriverConfig[req.driver]
                 bad_key == /\ ~unknown_driver
                            /\ req.config \ DOMAIN schema # {}
                 missing == /\ ~unknown_driver
                            /\ \E k \in DOMAIN schema :
                                   schema[k] = "required" /\ k \notin req.config
                 name_live == req.name \in KnownNames(last'.node)
             IN  /\ unknown_driver <=> result = "InvalidDriver"
                 /\ bad_key <=> result = "InvalidDriverOption"
                 /\ result = "MissingRequiredConfigOptions" => missing
                 /\ (missing /\ ~bad_key)
                        => result = "MissingRequiredConfigOptions"
                 /\ (name_live /\ ~unknown_driver /\ ~bad_key /\ ~missing)
                        => result = "DatasourceNameInUse"
                 /\ result \in Rejections
                        => /\ store' = store
                           /\ services' = services
                           /\ svc_node' = svc_node
                           /\ svc_server' = svc_server
                           /\ ~last'.persisted
                           /\ last'.pass_result = "not run"]_vars

\* C18 witness: a request with a key outside the schema was rejected while
\* the store held a record and its service was hosted.
C18_Witness ==
    /\ last.op = "add_datasource"
    /\ last.result = "InvalidDriverOption"
    /\ "bogus" \in last.args.config
    /\ store # <<>>
    /\ "d1" \in Range(services["n1"])

\* C19 as claimed: when add_datasource of an enabled datasource returns, the
\* node hosts a service with the name and the id of the new record.
C19_ReturnMeansServiceHosted ==
    (/\ last.op = "add_datasource"
     /\ last.result = "return"
     /\ last.args.enabled)
        => ServicesOf(last.node, Record(last.args.id, TRUE)) # {}

\* C20 as claimed: two nodes with different partition ids never build the
\* same topic, whichever targets they build and for whichever service ids.
C20_DifferentPartitionsShareNoTopic ==
    (/\ last.op \in {"node_rpc_target", "service_rpc_target"}
     /\ last.other_partition_id # last.args.partition_id)
        => last.other_topic # last.result

\* positions of the real calls among the transport calls of the last operation
RealCalls == {i \in 1..Len(last.calls) : last.calls[i].rpc = "call"}
Pings == {i \in 1..Len(last.calls) : last.calls[i].rpc = "ping"}

C24_PingIffUnknownThenCall ==
    last.op = "invoke_service_rpc"
        => /\ (Pings # {}) <=> (last.args.service_id \notin KnownNames(last.node))
           /\ Pings \subseteq {1}
           /\ \A i \in Pings : last.calls[i].timeout = "dse_ping_timeout"
           /\ (RealCalls # {}) <=>
                  (Pings = {} \/ last.calls[1].outcome = "ok")
           /\ RealCalls \subseteq {Len(last.calls)}
           /\ \A i \in RealCalls : last.calls[i].timeout = "timeout"
           /\ Len(last.calls) = Cardinality(Pings) + Cardinality(RealCalls)

\* C24 witness: a service hosted on the other node was invoked by a node that
\* knows the id from its peers: no ping, the real call alone.
C24_Witness ==
    /\ last.op = "invoke_service_rpc"
    /\ Len(last.calls) = 1
    /\ last.calls[1].rpc = "call"
    /\ last.args.service_id \notin HostedIds(last.node)
    /\ last.result = "return"

\* C26 as claimed: every subscriber id in the subscription table of a node is
\* the id of a service that the node hosts.
C26_SubscribersAreHosted ==
    \A n \in Nodes : \A p \in DOMAIN subscriptions[n] :
        \A t \in DOMAIN subscriptions[n][p] :
            subscriptions[n][p][t] \subseteq HostedIds(n)

\* C27 as claimed: a subscribe_table whose baseline fetch ended in NotFound
\* leaves the subscription table as it was before the call.
C27_FailedSubscribeRecordsNothing ==
    (last.op = "subscribe_table" /\ last.result = "NotFound")
        => subscriptions[last.node] = last.before

\* C28 as claimed: delete_datasource of a record that is in the store returns
\* normally and the record is gone afterwards, whether or not the node hosts
\* a service for it.
C28_DeleteSucceedsWithoutService ==
    (last.op = "delete_datasource" /\ last.existed)
        => /\ last.result = "return"
           /\ last.args.id \notin StoredIds(store)

\* C23: a matched service leaves the host list in the step in which its
\* server is told to stop; while unregister_service is blocked in wait the
\* service is in no host list and no lookup returns it; the server is down
\* only once the wait is over, and unregister_service returns only then.
C23_RemovedThenStoppedThenWaited ==
    [][\A o \in UserObjs :
          /\ (svc_server'[o] = "stopping" /\ svc_server[o] # "stopping")
                 => /\ svc_server[o] = "started"
                    /\ o \in Range(services[svc_node[o]])
                    /\ o \notin Range(services'[svc_node[o]])
                    /\ last'.result = "in wait"
          /\ svc_server'[o] = "stopping"
                 => \A n \in Nodes : o \notin Range(services'[n])
          /\ (svc_server'[o] = "stopped" /\ svc_server[o] # "stopped")
                 => /\ svc_server[o] = "stopping"
                    /\ last'.op = "unregister_service"
                    /\ last'.result = "return"
          /\ (last'.op = "unregister_service" /\ last'.result = "return"
                  /\ last' # last)
                 => \E s \in UserObjs :
                        /\ svc_server[s] = "stopping"
                        /\ svc_server'[s] = "stopped"
          /\ (last'.op = "service_object" /\ last'.result = o)
                 => svc_server'[o] = "started"]_vars

\* C23 witness: a lookup made while unregister_service was blocked in wait
\* for the only service with the id came back empty.
C23_Witness ==
    /\ last.op = "service_object"
    /\ last.result = None
    /\ \E o \in UserObjs :
           /\ svc_server[o] = "stopping"
           /\ svc_node[o] = last.node
           /\ service_id_of[o] = last.args.service_id

\* the tables of service sid that have a subscriber on node n or that a peer
\* of n reports as subscribed
SubscribedTables(n, sid) ==
    {t \in Tables :
        \/ table_subscribers(subscriptions[n], sid, t) # {}
        \/ \E m \in DOMAIN peers[n] :
               /\ sid \in DOMAIN peers[n][m].subscribed_tables
               /\ t \in peers[n][m].subscribed_tables[sid]}

\* a refresh has treated service o as claimed: on_first_subs with exactly
\* the tables that are new, on_no_subs with exactly those that are gone, no
\* hook for an empty difference, and the recorded set is the current one
Refreshed(o) ==
    LET T == SubscribedTables(last'.node, service_id_of[o])
        recorded == published_tables[o]
    IN  /\ published_tables'[o] = T
        /\ {h \in last'.hooks : h.service = o} =
               {[service |-> o, hook |-> "on_first_subs", tables |-> d] :
                    d \in {T \ recorded} \ {{}}}
               \cup
               {[service |-> o, hook |-> "on_no_subs", tables |-> d] :
                    d \in {recorded \ T} \ {{}}}

InCriticalSection == {c \in Contexts : pc[c].at \in {"in", "checked", "inserted"}}

\* C25: whichever way direct callers, the periodic pass and the pass of
\* add_datasource interleave, at most one of them is between the duplicate
\* check and the end of register_service, it is the holder of the lock, and
\* no host list holds a service id twice.
C25_OneRegistrationAtATime ==
    /\ Cardinality(InCriticalSection) <= 1
    /\ \A c \in InCriticalSection : register_lock = c
    /\ \A n \in Nodes : \A i, j \in 1..Len(services[n]) :
           service_id_of[services[n][i]] = service_id_of[services[n][j]]
               => i = j

\* C25 witness: a registration was refused as a duplicate while a third
\* context was waiting for the lock, the id being hosted once.
C25_Witness ==
    /\ last.op = "register_service"
    /\ last.result = "DataServiceError"
    /\ last.context = "periodic"
    /\ pc["api"].at = "at the lock"
    /\ svc_node["s2"] = "n1"
    /\ "a" \in HostedIds("n1")

\* C29 as claimed: a register_service that ended in an exception of the rpc
\* server leaves the service out of the host list and bound to no node, and
\* every hosted service that no context is still registering has a started
\* rpc server.
C29_FailedStartLeavesNothing ==
    /\ (last.op = "register_service" /\ last.result = "Exception")
           => /\ \A n \in Nodes : last.args.obj \notin Range(services[n])
              /\ svc_node[last.args.obj] = None
    /\ \A n \in Nodes : \A o \in Range(services[n]) :
           (\A c \in Contexts : pc[c].obj # o) => svc_server[o] = "started"

====
